---- MODULE Spec2Model ----
(***************************************************************************)
(* A model of backend/app.py: the FastAPI application with the three       *)
(* routes GET /health, POST /process and POST /analyze.                    *)
(*                                                                         *)
(* An uploaded file is modelled by a short description of its bytes (what  *)
(* the image decoder makes of them); the decoders expand it into a pixel   *)
(* array.  The OpenCV calls of /analyze (cvtColor, GaussianBlur,           *)
(* threshold with Otsu, findContours, contourArea, boundingRect) are       *)
(* modelled by what they compute on 8-bit images, in integer arithmetic.   *)
(* The Pillow filters of process_image are kept symbolic: the PNG is the   *)
(* recipe applied to the decoded picture.                                  *)
(***************************************************************************)
EXTENDS Integers, Sequences, FiniteSets, TLC

VARIABLES req, pc, resp, eff, loc

vars == <<req, pc, resp, eff, loc>>

(***************************************************************************)
(* Bounds of the model.                                                    *)
(***************************************************************************)
MaxW == 4
MaxH == 3
MaxCells == 6
NReq == 2

(***************************************************************************)
(* Evaluation aid: TLC keeps a function expression lazy and re-evaluates   *)
(* its body at every application; comparing it with a tuple makes TLC      *)
(* build the table once.  The value is unchanged.                          *)
(***************************************************************************)
Materialize(f) == IF f = <<>> THEN f ELSE f

Max2(a, b) == IF a >= b THEN a ELSE b
Min2(a, b) == IF a <= b THEN a ELSE b
Abs(a) == IF a < 0 THEN -a ELSE a

(***************************************************************************)
(* Natural numbers beyond the range of TLC's integers: little-endian       *)
(* sequences of digits in base 10000, without leading zero digits.  They   *)
(* carry the exact between-class variances of Otsu's method.               *)
(***************************************************************************)
RECURSIVE BigOf(_)
BigOf(n) == IF n = 0 THEN <<>> ELSE <<n % 10000>> \o BigOf(n \div 10000)

RECURSIVE BigTrim(_)
BigTrim(a) ==
    IF a = <<>> THEN a
    ELSE IF a[Len(a)] = 0 THEN BigTrim(SubSeq(a, 1, Len(a) - 1))
    ELSE a

RECURSIVE BigAddC(_, _, _)
BigAddC(a, b, c) ==
    IF a = <<>> /\ b = <<>> THEN (IF c = 0 THEN <<>> ELSE <<c>>)
    ELSE LET x == IF a = <<>> THEN 0 ELSE Head(a)
             y == IF b = <<>> THEN 0 ELSE Head(b)
             s == x + y + c
         IN  <<s % 10000>>
               \o BigAddC(IF a = <<>> THEN a ELSE Tail(a),
                          IF b = <<>> THEN b ELSE Tail(b), s \div 10000)

BigAdd(a, b) == BigAddC(a, b, 0)

\* a - b for a >= b
RECURSIVE BigSubB(_, _, _)
BigSubB(a, b, bw) ==
    IF a = <<>> THEN <<>>
    ELSE LET y == IF b = <<>> THEN 0 ELSE Head(b)
             d == Head(a) - y - bw
         IN  <<IF d < 0 THEN d + 10000 ELSE d>>
               \o BigSubB(Tail(a), IF b = <<>> THEN b ELSE Tail(b),
                          IF d < 0 THEN 1 ELSE 0)

RECURSIVE BigMulDigit(_, _, _)
BigMulDigit(a, d, c) ==
    IF a = <<>> THEN (IF c = 0 THEN <<>> ELSE <<c>>)
    ELSE LET p == Head(a) * d + c
         IN  <<p % 10000>> \o BigMulDigit(Tail(a), d, p \div 10000)

RECURSIVE BigMul(_, _)
BigMul(a, b) ==
    IF a = <<>> \/ b = <<>> THEN <<>>
    ELSE LET rest == BigMul(a, Tail(b))
         IN  BigTrim(BigAdd(BigMulDigit(a, Head(b), 0),
                            IF rest = <<>> THEN rest ELSE <<0>> \o rest))

RECURSIVE BigCmpFrom(_, _, _)
BigCmpFrom(a, b, i) ==
    IF i = 0 THEN 0
    ELSE IF a[i] < b[i] THEN -1
    ELSE IF a[i] > b[i] THEN 1
    ELSE BigCmpFrom(a, b, i - 1)

\* -1, 0, 1 as a < b, a = b, a > b
BigCmp(a, b) ==
    IF Len(a) < Len(b) THEN -1
    ELSE IF Len(a) > Len(b) THEN 1
    ELSE BigCmpFrom(a, b, Len(a))

\* |a - b|
BigDist(a, b) ==
    IF BigCmp(a, b) >= 0 THEN BigTrim(BigSubB(a, b, 0))
    ELSE BigTrim(BigSubB(b, a, 0))

(***************************************************************************)
(* Colours are BGR triples of 8-bit samples, as cv2.imdecode lays them     *)
(* out.  The pictures of the model are painted from this palette.          *)
(***************************************************************************)
Black == <<0, 0, 0>>
White == <<255, 255, 255>>
Grey == <<128, 128, 128>>
Navy == <<4, 0, 0>>
Palette == <<Black, White, Grey, Navy>>

(***************************************************************************)
(* What a decoder makes of the uploaded bytes.  A "bitmap" file holds      *)
(* w x h palette cells, each drawn as a zoom x zoom block; a "square"      *)
(* file holds a side x side canvas of colour bg with a centred sq x sq     *)
(* square of colour fg and, inside that, a centred core x core square of   *)
(* colour bg again (sq = 0: a uniform canvas; core = 0: no core).          *)
(***************************************************************************)
IsImage(file) == file.kind \in {"bitmap", "square"}

ImageWidth(file) == IF file.kind = "bitmap" THEN file.w * file.zoom ELSE file.side
ImageHeight(file) == IF file.kind = "bitmap" THEN file.h * file.zoom ELSE file.side

Centred(x, y, side, sq) ==
    LET off == (side - sq) \div 2
    IN  /\ x >= off /\ x < off + sq
        /\ y >= off /\ y < off + sq

PixelAt(file, x, y) ==
    IF file.kind = "bitmap"
    THEN Palette[file.bits[(y \div file.zoom) * file.w + (x \div file.zoom) + 1]]
    ELSE IF Centred(x, y, file.side, file.core) THEN Palette[file.bg]
    ELSE IF Centred(x, y, file.side, file.sq) THEN Palette[file.fg]
    ELSE Palette[file.bg]

\* cv2.imdecode(nparr, cv2.IMREAD_COLOR): None for bytes that are no image,
\* else the h x w x 3 array, here row-major from index 0.
NoImage == [w |-> 0, h |-> 0, px |-> <<>>]

imdecode(file) ==
    IF ~IsImage(file) THEN NoImage
    ELSE LET w == ImageWidth(file)
             h == ImageHeight(file)
         IN  [w |-> w, h |-> h,
              px |-> Materialize([i \in 0 .. w * h - 1 |->
                                     PixelAt(file, i % w, i \div w)])]

(***************************************************************************)
(* cv2.cvtColor(img, cv2.COLOR_BGR2GRAY) on 8-bit samples: the fixed-point *)
(* luma (B*3735 + G*19235 + R*9798 + 2^14) >> 15.                          *)
(***************************************************************************)
GrayOf(c) == (c[1] * 3735 + c[2] * 19235 + c[3] * 9798 + 16384) \div 32768

cvtColor(img) ==
    [w |-> img.w, h |-> img.h,
     px |-> Materialize([i \in 0 .. img.w * img.h - 1 |-> GrayOf(img.px[i])])]

(***************************************************************************)
(* cv2.GaussianBlur(gray, (5, 5), 0) on 8-bit samples: the separable       *)
(* kernel (1 4 6 4 1)/16 in each direction, computed exactly and rounded   *)
(* half up once at the end, with the default border BORDER_REFLECT_101.    *)
(***************************************************************************)
RECURSIVE borderInterpolate(_, _)
borderInterpolate(p, len) ==
    IF p >= 0 /\ p < len THEN p
    ELSE IF len = 1 THEN 0
    ELSE IF p < 0 THEN borderInterpolate(-p, len)
    ELSE borderInterpolate(2 * len - 2 - p, len)

GaussianBlur(gray) ==
    LET w == gray.w
        h == gray.h
        At(x, y) == gray.px[borderInterpolate(y, h) * w + borderInterpolate(x, w)]
        rows == Materialize([i \in 0 .. w * h - 1 |->
                    LET x == i % w
                        y == i \div w
                    IN  At(x - 2, y) + 4 * At(x - 1, y) + 6 * At(x, y)
                          + 4 * At(x + 1, y) + At(x + 2, y)])
        Row(x, y) == rows[borderInterpolate(y, h) * w + x]
    IN  [w |-> w, h |-> h,
         px |-> Materialize([i \in 0 .. w * h - 1 |->
                    LET x == i % w
                        y == i \div w
                    IN  (Row(x, y - 2) + 4 * Row(x, y - 1) + 6 * Row(x, y)
                           + 4 * Row(x, y + 1) + Row(x, y + 2) + 128) \div 256])]

(***************************************************************************)
(* cv2.threshold(blurred, 0, 255, THRESH_BINARY + THRESH_OTSU).            *)
(*                                                                         *)
(* Otsu's threshold is the first t in 0..255 whose split of the histogram  *)
(* (values <= t against values > t) has the greatest between-class         *)
(* variance q1*q2*(mu1 - mu2)^2; a split with an empty class is skipped,   *)
(* and 0 is returned when no split qualifies.  With n1, n2 the class       *)
(* sizes and s1, s2 the class sums the variance is                         *)
(* (s1*n2 - s2*n1)^2 / (n1*n2*N^2), compared here as exact fractions.      *)
(***************************************************************************)
Histogram(im) ==
    LET n == im.w * im.h
        vals == {im.px[i] : i \in 0 .. n - 1}
    IN  [v \in 0 .. 255 |->
            IF v \in vals THEN Cardinality({i \in 0 .. n - 1 : im.px[i] = v})
            ELSE 0]

RECURSIVE SumTo(_, _, _)
SumTo(f, lo, hi) ==
    IF lo > hi THEN 0
    ELSE IF lo = hi THEN f[lo]
    ELSE LET mid == (lo + hi) \div 2
         IN  SumTo(f, lo, mid) + SumTo(f, mid + 1, hi)

\* the between-class variance of the split at t, as num / den; den = 0 when
\* the split is skipped.  A split at a value no pixel has equals the split
\* before it and can never be strictly greater, so it is skipped as well.
Sigma(hist, weighted, t) ==
    LET n1 == SumTo(hist, 0, t)
        n2 == SumTo(hist, t + 1, 255)
        s1 == SumTo(weighted, 0, t)
        s2 == SumTo(weighted, t + 1, 255)
        d == BigDist(BigMul(BigOf(s1), BigOf(n2)), BigMul(BigOf(s2), BigOf(n1)))
    IN  IF hist[t] = 0 \/ n1 = 0 \/ n2 = 0 THEN [num |-> <<>>, den |-> 0]
        ELSE [num |-> BigMul(d, d), den |-> n1 * n2]

\* sigma a > sigma b
SigmaGreater(a, b) ==
    IF a.den = 0 THEN FALSE
    ELSE IF b.den = 0 THEN a.num # <<>>
    ELSE BigCmp(BigMul(a.num, BigOf(b.den)), BigMul(b.num, BigOf(a.den))) > 0

\* the running maximum of the scan over lo..hi: the earliest greatest one
RECURSIVE OtsuBest(_, _, _, _)
OtsuBest(hist, weighted, lo, hi) ==
    IF lo = hi THEN [t |-> lo, s |-> Sigma(hist, weighted, lo)]
    ELSE LET mid == (lo + hi) \div 2
             l == OtsuBest(hist, weighted, lo, mid)
             r == OtsuBest(hist, weighted, mid + 1, hi)
         IN  IF SigmaGreater(r.s, l.s) THEN r ELSE l

\* mutant: 255 when no split qualifies
getThreshVal_OtsuMax(im) ==
    LET hist == Materialize(Histogram(im))
        weighted == Materialize([v \in 0 .. 255 |-> v * hist[v]])
        best == OtsuBest(hist, weighted, 0, 255)
    IN  IF best.s.den = 0 \/ best.s.num = <<>> THEN 255 ELSE best.t

getThreshVal_Otsu(im) ==
    LET hist == Materialize(Histogram(im))
        weighted == Materialize([v \in 0 .. 255 |-> v * hist[v]])
        best == OtsuBest(hist, weighted, 0, 255)
    IN  IF best.s.den = 0 \/ best.s.num = <<>> THEN 0 ELSE best.t

\* mutant: THRESH_BINARY_INV
threshold_inv(im) ==
    LET t == getThreshVal_Otsu(im)
    IN  [w |-> im.w, h |-> im.h,
         px |-> Materialize([i \in 0 .. im.w * im.h - 1 |->
                               IF im.px[i] > t THEN 0 ELSE 255])]

threshold(im) ==
    LET t == getThreshVal_Otsu(im)
    IN  [w |-> im.w, h |-> im.h,
         px |-> Materialize([i \in 0 .. im.w * im.h - 1 |->
                               IF im.px[i] > t THEN 255 ELSE 0])]

(***************************************************************************)
(* cv2.findContours(thresh, cv2.RETR_EXTERNAL, cv2.CHAIN_APPROX_SIMPLE).   *)
(*                                                                         *)
(* The non-zero pixels fall into 8-connected components, the zero pixels   *)
(* into 4-connected ones, and the picture is framed by zero pixels.  The   *)
(* raster scan starts an outer border at the first pixel of a component;   *)
(* RETR_EXTERNAL keeps the border only when the zero pixel to its left     *)
(* belongs to the background that reaches the frame.  Each border is       *)
(* followed as icvFetchContour does, and CHAIN_APPROX_SIMPLE records a     *)
(* point only where the direction changes.  The contour found last is      *)
(* returned first.                                                         *)
(***************************************************************************)
IsOn(mask, x, y) ==
    /\ x >= 0 /\ x < mask.w
    /\ y >= 0 /\ y < mask.h
    /\ mask.px[y * mask.w + x] # 0

IsOff(mask, x, y) ==
    /\ x >= 0 /\ x < mask.w
    /\ y >= 0 /\ y < mask.h
    /\ mask.px[y * mask.w + x] = 0

\* icvCodeDeltas: direction codes 0..7, east first, turning through north
CodeDeltas ==
    <<<<1, 0>>, <<1, -1>>, <<0, -1>>, <<-1, -1>>,
      <<-1, 0>>, <<-1, 1>>, <<0, 1>>, <<1, 1>>>>

DeltaX(s) == CodeDeltas[(s % 8) + 1][1]
DeltaY(s) == CodeDeltas[(s % 8) + 1][2]

Neighbours8(mask, i) ==
    LET x == i % mask.w
        y == i \div mask.w
    IN  {(y + DeltaY(s)) * mask.w + (x + DeltaX(s)) :
            s \in {d \in 0 .. 7 : IsOn(mask, x + DeltaX(d), y + DeltaY(d))}}

Neighbours4(mask, i) ==
    LET x == i % mask.w
        y == i \div mask.w
    IN  {(y + DeltaY(s)) * mask.w + (x + DeltaX(s)) :
            s \in {d \in {0, 2, 4, 6} : IsOff(mask, x + DeltaX(d), y + DeltaY(d))}}

\* one wave of a flood fill: st = [seen, front]
FloodStep(mask, eight, st) ==
    LET next == UNION {IF eight THEN Neighbours8(mask, i) ELSE Neighbours4(mask, i) :
                          i \in st.front}
        new == next \ st.seen
    IN  [seen |-> st.seen \cup new, front |-> new]

RECURSIVE FloodN(_, _, _, _)
FloodN(mask, eight, st, n) ==
    IF n = 0 \/ st.front = {} THEN st
    ELSE IF n = 1 THEN FloodStep(mask, eight, st)
    ELSE FloodN(mask, eight, FloodN(mask, eight, st, n \div 2), n - n \div 2)

RECURSIVE FloodFrom(_, _, _, _)
FloodFrom(mask, eight, st, n) ==
    LET t == FloodN(mask, eight, st, n)
    IN  IF t.front = {} THEN t.seen ELSE FloodFrom(mask, eight, t, 2 * n)

Flood(mask, eight, seeds) ==
    FloodFrom(mask, eight, [seen |-> seeds, front |-> seeds], 8)

\* the zero pixels joined to the frame
OuterBackground(mask) ==
    LET n == mask.w * mask.h
    IN  Flood(mask, FALSE,
              {i \in 0 .. n - 1 :
                  /\ mask.px[i] = 0
                  /\ \/ i % mask.w \in {0, mask.w - 1}
                     \/ i \div mask.w \in {0, mask.h - 1}})

\* the first non-zero pixel in lo..hi outside `taken`, in raster order; -1: none
RECURSIVE FirstOn(_, _, _, _)
FirstOn(mask, taken, lo, hi) ==
    IF lo > hi THEN -1
    ELSE IF lo = hi
    THEN (IF mask.px[lo] # 0 /\ lo \notin taken THEN lo ELSE -1)
    ELSE LET mid == (lo + hi) \div 2
             l == FirstOn(mask, taken, lo, mid)
         IN  IF l >= 0 THEN l ELSE FirstOn(mask, taken, mid + 1, hi)

\* the start pixels of the outer borders RETR_EXTERNAL keeps, in scan order
RECURSIVE BorderStarts(_, _, _)
BorderStarts(mask, outer, taken) ==
    LET i == FirstOn(mask, taken, 0, mask.w * mask.h - 1)
    IN  IF i < 0 THEN <<>>
        ELSE LET comp == Flood(mask, TRUE, {i})
                 kept == i % mask.w = 0 \/ (i - 1) \in outer
             IN  (IF kept THEN <<i>> ELSE <<>>)
                   \o BorderStarts(mask, outer, taken \cup comp)

\* the first direction after s, turning through s+1, s+2, ..., with a
\* non-zero pixel
RECURSIVE NextCode(_, _, _, _)
NextCode(mask, x, y, s) ==
    IF IsOn(mask, x + DeltaX(s + 1), y + DeltaY(s + 1)) THEN (s + 1) % 8
    ELSE NextCode(mask, x, y, s + 1)

\* the first direction with a non-zero pixel among 3, 2, 1, 0, 7, 6, 5, 4;
\* -1 when the pixel stands alone
RECURSIVE FirstCode(_, _, _, _)
FirstCode(mask, x, y, k) ==
    IF k > 8 THEN -1
    ELSE IF IsOn(mask, x + DeltaX(12 - k), y + DeltaY(12 - k)) THEN (12 - k) % 8
    ELSE FirstCode(mask, x, y, k + 1)

\* one turn of the border-following loop; st = [x, y, s, prev, pts, done]
FetchStep(mask, x0, y0, x1, y1, st) ==
    LET s == NextCode(mask, st.x, st.y, st.s)
        turn == s # st.prev
        nx == st.x + DeltaX(s)
        ny == st.y + DeltaY(s)
    IN  [x |-> nx, y |-> ny, s |-> (s + 4) % 8,
         prev |-> IF turn THEN s ELSE st.prev,
         pts |-> IF turn THEN Append(st.pts, <<st.x, st.y>>) ELSE st.pts,
         done |-> nx = x0 /\ ny = y0 /\ st.x = x1 /\ st.y = y1]

RECURSIVE FetchN(_, _, _, _, _, _, _)
FetchN(mask, x0, y0, x1, y1, st, n) ==
    IF n = 0 \/ st.done THEN st
    ELSE IF n = 1 THEN FetchStep(mask, x0, y0, x1, y1, st)
    ELSE FetchN(mask, x0, y0, x1, y1,
                FetchN(mask, x0, y0, x1, y1, st, n \div 2), n - n \div 2)

RECURSIVE FetchFrom(_, _, _, _, _, _, _)
FetchFrom(mask, x0, y0, x1, y1, st, n) ==
    LET t == FetchN(mask, x0, y0, x1, y1, st, n)
    IN  IF t.done THEN t.pts ELSE FetchFrom(mask, x0, y0, x1, y1, t, 2 * n)

\* icvFetchContour from the border start i0: the contour's points
FetchContour(mask, i0) ==
    LET x0 == i0 % mask.w
        y0 == i0 \div mask.w
        s == FirstCode(mask, x0, y0, 1)
    IN  IF s < 0 \/ s = 4 THEN <<<<x0, y0>>>>
        ELSE FetchFrom(mask, x0, y0, x0 + DeltaX(s), y0 + DeltaY(s),
                       [x |-> x0, y |-> y0, s |-> s, prev |-> (s + 4) % 8,
                        pts |-> <<>>, done |-> FALSE], 8)

Reverse(q) == [i \in 1 .. Len(q) |-> q[Len(q) + 1 - i]]

findContours(mask) ==
    LET starts == BorderStarts(mask, OuterBackground(mask), {})
    IN  Reverse([k \in 1 .. Len(starts) |-> FetchContour(mask, starts[k])])

(***************************************************************************)
(* cv2.contourArea(contour): half the absolute value of the shoelace sum   *)
(* over the contour's points.  Area2 is twice the area, an integer.        *)
(***************************************************************************)
RECURSIVE Shoelace(_, _, _)
Shoelace(c, lo, hi) ==
    IF lo > hi THEN 0
    ELSE IF lo = hi
    THEN LET p == c[IF lo = 1 THEN Len(c) ELSE lo - 1]
             q == c[lo]
         IN  p[1] * q[2] - p[2] * q[1]
    ELSE LET mid == (lo + hi) \div 2
         IN  Shoelace(c, lo, mid) + Shoelace(c, mid + 1, hi)

Area2(c) == Abs(Shoelace(c, 1, Len(c)))

(***************************************************************************)
(* cv2.boundingRect(contour): the upright rectangle of the points.         *)
(***************************************************************************)
RECURSIVE Least(_, _, _, _)
Least(c, k, lo, hi) ==
    IF lo = hi THEN c[lo][k]
    ELSE LET mid == (lo + hi) \div 2
         IN  Min2(Least(c, k, lo, mid), Least(c, k, mid + 1, hi))

RECURSIVE Greatest(_, _, _, _)
Greatest(c, k, lo, hi) ==
    IF lo = hi THEN c[lo][k]
    ELSE LET mid == (lo + hi) \div 2
         IN  Max2(Greatest(c, k, lo, mid), Greatest(c, k, mid + 1, hi))

\* mutant: width and height without the + 1
boundingRectOpen(c) ==
    LET x == Least(c, 1, 1, Len(c))
        y == Least(c, 2, 1, Len(c))
    IN  [x |-> x, y |-> y,
         width |-> Greatest(c, 1, 1, Len(c)) - x,
         height |-> Greatest(c, 2, 1, Len(c)) - y]

boundingRect(c) ==
    LET x == Least(c, 1, 1, Len(c))
        y == Least(c, 2, 1, Len(c))
    IN  [x |-> x, y |-> y,
         width |-> Greatest(c, 1, 1, Len(c)) - x + 1,
         height |-> Greatest(c, 2, 1, Len(c)) - y + 1]

(***************************************************************************)
(* Text: a string is a sequence of one-character strings, so that          *)
(* str.strip() and str.lower() act on it character by character.           *)
(***************************************************************************)
Whitespace == {" ", "\t", "\n"}

UpperToLower ==
    {<<"A", "a">>, <<"E", "e">>, <<"I", "i">>, <<"L", "l">>, <<"N", "n">>,
     <<"O", "o">>, <<"P", "p">>, <<"R", "r">>, <<"S", "s">>, <<"T", "t">>,
     <<"U", "u">>, <<"V", "v">>, <<"X", "x">>}

LowerChar(c) ==
    IF \E m \in UpperToLower : m[1] = c
    THEN (CHOOSE m \in UpperToLower : m[1] = c)[2]
    ELSE c

lower(str) == [i \in 1 .. Len(str) |-> LowerChar(str[i])]

RECURSIVE lstrip(_)
lstrip(str) ==
    IF str # <<>> /\ Head(str) \in Whitespace THEN lstrip(Tail(str)) ELSE str

RECURSIVE rstrip(_)
rstrip(str) ==
    IF str # <<>> /\ str[Len(str)] \in Whitespace
    THEN rstrip(SubSeq(str, 1, Len(str) - 1))
    ELSE str

strip(str) == rstrip(lstrip(str))

arterial == <<"a", "r", "t", "e", "r", "i", "a", "l">>
venous == <<"v", "e", "n", "o", "u", "s">>

(***************************************************************************)
(* Responses.                                                              *)
(***************************************************************************)
NoResponse == [status |-> 0, media |-> "", body |-> [none |-> TRUE]]

JSONResponse(content, status_code) ==
    [status |-> status_code, media |-> "application/json", body |-> content]

ErrorBody(message) == [success |-> FALSE, error |-> message]

\* mutant: the except branch answers 500
ExceptionResponse500(message) == JSONResponse(ErrorBody(message), 500)

\* the handlers' "except Exception as e" branch
ExceptionResponse(message) == JSONResponse(ErrorBody(message), 400)

\* FastAPI's answer to a request without a required form field
ValidationResponse(missing) == JSONResponse([detail |-> missing], 422)

Null == [null |-> TRUE]

(***************************************************************************)
(* Requests: the route, the multipart field "file" (kind "absent" when     *)
(* the field is not sent) and the form field "phase" (sent: FALSE when it  *)
(* is not sent).                                                           *)
(***************************************************************************)
Absent == [kind |-> "absent"]
Empty == [kind |-> "empty"]
Garbage == [kind |-> "garbage"]

NoRequest == [route |-> "", file |-> Absent, sent |-> FALSE, phase |-> <<>>]

\* file: UploadFile = File(...), phase: str = Form(...): both required; an
\* empty form value counts as not sent.
MissingFields(q) ==
    (IF q.route \in {"process", "analyze"} /\ q.file.kind = "absent"
     THEN {"file"} ELSE {})
      \cup (IF q.route = "process" /\ (~q.sent \/ q.phase = <<>>)
            THEN {"phase"} ELSE {})

(***************************************************************************)
(* What a handler has done so far, and the locals it holds.                *)
(***************************************************************************)
NoEffects == [read |-> FALSE, opened |-> FALSE, processed |-> FALSE]
NoLocals == [phase |-> <<>>, w |-> 0, h |-> 0, contours |-> <<>>]

(***************************************************************************)
(* process_image(img, phase): the Pillow recipe applied to the picture.    *)
(* phase is one of the two recipes here; any other value raises            *)
(* ValueError("Invalid phase").                                            *)
(***************************************************************************)
process_image(img, phase) ==
    IF phase = arterial
    THEN [ok |-> TRUE,
          img |-> [of |-> img, filters |-> <<"RGB", "Contrast 1.6", "UnsharpMask 2 120 3">>]]
    ELSE IF phase = venous
    THEN [ok |-> TRUE,
          img |-> [of |-> img, filters |-> <<"RGB", "GaussianBlur 2.0">>]]
    ELSE [ok |-> FALSE, img |-> [of |-> img, filters |-> <<>>]]

(***************************************************************************)
(* POST /process, up to "await file.read()".                               *)
(***************************************************************************)
NormalizePhase(phase) == lower(strip(phase))

\* mutant: only an empty phase is refused
PhaseAcceptedLoose(phase) == phase # <<>>

PhaseAccepted(phase) == phase \in {arterial, venous}

PhaseErrorResponse ==
    JSONResponse(ErrorBody("phase must be arterial or venous"), 400)

(***************************************************************************)
(* POST /process, from the file's content on.                              *)
(***************************************************************************)
ProcessContent(file, phase) ==
    IF file.kind = "empty"
    THEN [resp |-> JSONResponse(ErrorBody("empty file"), 400),
          eff |-> [read |-> TRUE, opened |-> FALSE, processed |-> FALSE]]
    ELSE IF ~IsImage(file)
    THEN [resp |-> ExceptionResponse("cannot identify image file"),
          eff |-> [read |-> TRUE, opened |-> TRUE, processed |-> FALSE]]
    ELSE LET out == process_image(file, phase)
         IN  IF out.ok
             THEN [resp |-> [status |-> 200, media |-> "image/png",
                             body |-> [png |-> out.img]],
                   eff |-> [read |-> TRUE, opened |-> TRUE, processed |-> TRUE]]
             ELSE [resp |-> ExceptionResponse("Invalid phase"),
                   eff |-> [read |-> TRUE, opened |-> TRUE, processed |-> TRUE]]

(***************************************************************************)
(* POST /analyze: the decision over the contours.                          *)
(*                                                                         *)
(* area is Area2/2 and area_ratio = area / (w*h); both are kept as exact   *)
(* fractions [num, den].  The float quotient is the double nearest to the  *)
(* fraction, and no fraction with a denominator this small lies between    *)
(* 1/20 and the double 0.05, so the comparisons agree.                     *)
(***************************************************************************)
\* mutant: the area of the bounding box in place of the polygon's
AreaRatioOfBox(contour, w, h) ==
    [num |-> 2 * boundingRect(contour).width * boundingRect(contour).height,
     den |-> 2 * w * h]

AreaRatio(contour, w, h) == [num |-> Area2(contour), den |-> 2 * w * h]

\* mutant: the gate at 0.5
AtLeastHalf(ratio) == ratio.num * 100 >= 50 * ratio.den

\* area_ratio >= 0.05
AtLeastFivePercent(ratio) == ratio.num * 100 >= 5 * ratio.den

\* min(max(area_ratio, 0.0), 1.0)
Clamp(ratio) ==
    IF ratio.num < 0 THEN [num |-> 0, den |-> 1]
    ELSE IF ratio.num > ratio.den THEN [num |-> 1, den |-> 1]
    ELSE ratio

\* round(x, 2) is exact rounding of the double x, half to even.  A fraction
\* k/100 + 1/200 that is no double (all but .125, .375, .625, .875) falls to
\* the side on which its nearest double lies: up for the k below.
TiesUp ==
    {0, 2, 3, 5, 6, 8, 9, 11, 13, 16, 19, 22, 25, 26, 27, 31, 32, 33, 37, 38,
     39, 40, 44, 45, 46, 50, 51, 52, 53, 54, 55, 63, 64, 65, 66, 67, 68, 75,
     76, 77, 78, 79, 80, 87, 88, 89, 90, 91, 92, 93}

\* mutant: truncation to hundredths
Round2Down(ratio) == (ratio.num * 100) \div ratio.den

\* round(float(x), 2), in hundredths
Round2(ratio) ==
    LET k == (ratio.num * 100) \div ratio.den
        rest == (ratio.num * 100) % ratio.den
    IN  IF 2 * rest < ratio.den THEN k
        ELSE IF 2 * rest > ratio.den THEN k + 1
        ELSE IF k \in TiesUp THEN k + 1
        ELSE k

\* max(contours, key=cv2.contourArea): the first contour of greatest area
RECURSIVE LargestFrom(_, _, _)
LargestFrom(contours, k, best) ==
    IF k > Len(contours) THEN best
    ELSE LargestFrom(contours, k + 1,
                     IF Area2(contours[k]) > Area2(contours[best]) THEN k ELSE best)

Largest(contours) == contours[LargestFrom(contours, 2, 1)]

Undetected == [detected |-> FALSE, confidence |-> 0, bounding_box |-> Null]

\* mutant: the confidence is set before the gate is tested
DetectEager(contours, w, h) ==
    IF contours = <<>> THEN Undetected
    ELSE LET largest == Largest(contours)
             area_ratio == AreaRatio(largest, w, h)
         IN  IF AtLeastFivePercent(area_ratio)
             THEN [detected |-> TRUE,
                   confidence |-> Round2(Clamp(area_ratio)),
                   bounding_box |-> boundingRect(largest)]
             ELSE [detected |-> FALSE,
                   confidence |-> Round2(Clamp(area_ratio)),
                   bounding_box |-> Null]

\* the decision of /analyze; confidence is in hundredths
Detect(contours, w, h) ==
    IF contours = <<>> THEN Undetected
    ELSE LET largest == Largest(contours)
             area_ratio == AreaRatio(largest, w, h)
         IN  IF AtLeastFivePercent(area_ratio)
             THEN [detected |-> TRUE,
                   confidence |-> Round2(Clamp(area_ratio)),
                   bounding_box |-> boundingRect(largest)]
             ELSE Undetected

AnalyzeContent(file) ==
    IF file.kind = "empty"
    THEN [resp |-> JSONResponse(ErrorBody("empty file"), 400),
          eff |-> [read |-> TRUE, opened |-> FALSE, processed |-> FALSE],
          loc |-> NoLocals]
    ELSE LET img == imdecode(file)
         IN  IF img = NoImage
             THEN [resp |-> JSONResponse(ErrorBody("invalid image"), 400),
                   eff |-> [read |-> TRUE, opened |-> TRUE, processed |-> FALSE],
                   loc |-> NoLocals]
             ELSE LET gray == cvtColor(img)
                      blurred == GaussianBlur(gray)
                      thresh == threshold(blurred)
                      contours == findContours(thresh)
                  IN  [resp |-> JSONResponse(Detect(contours, img.w, img.h), 200),
                       eff |-> [read |-> TRUE, opened |-> TRUE, processed |-> FALSE],
                       loc |-> [phase |-> <<>>, w |-> img.w, h |-> img.h,
                                contours |-> contours]]

(***************************************************************************)
(* The requests of the model.                                              *)
(***************************************************************************)
Bitmap(w, h, zoom, bits) ==
    [kind |-> "bitmap", w |-> w, h |-> h, zoom |-> zoom, bits |-> bits]

Square(side, sq, core, bg, fg) ==
    [kind |-> "square", side |-> side, sq |-> sq, core |-> core,
     bg |-> bg, fg |-> fg]

\* every black-and-white picture of up to MaxW x MaxH cells, MaxCells in all
Shapes == {s \in (1 .. MaxW) \X (1 .. MaxH) : s[1] * s[2] <= MaxCells}

Bitmaps(zoom) ==
    UNION {{Bitmap(s[1], s[2], zoom, bits) : bits \in [1 .. s[1] * s[2] -> {1, 2}]} :
              s \in Shapes}

\* the pictures of the specification's tests: a black 60 x 60 and a black
\* 20 x 20 square centred in a white 100 x 100 canvas, and a white canvas
BlackSquare60 == Square(100, 60, 0, 2, 1)
BlackSquare20 == Square(100, 20, 0, 2, 1)
WhiteCanvas == Square(100, 0, 0, 2, 1)

\* uniform pictures of every palette colour, and squares on a canvas in
\* both polarities, with and without a core
Uniforms == {Square(side, 0, 0, bg, bg) : side \in 1 .. MaxW, bg \in 1 .. 4}

Squares ==
    {Square(10, sq, 0, bg, 3 - bg) : sq \in {2, 3, 6}, bg \in {1, 2}}
      \cup {Square(24, 20, 12, bg, 3 - bg) : bg \in {1, 2}}
      \cup {Square(10, 6, 0, 3, fg) : fg \in {1, 2}}

Images ==
    Bitmaps(1) \cup Bitmaps(3) \cup Uniforms \cup Squares
      \cup {BlackSquare60, BlackSquare20, WhiteCanvas}

PhaseInputs ==
    {arterial, venous,
     <<"A", "r", "t", "e", "r", "i", "a", "l">>,
     <<" ", "V", "E", "N", "O", "U", "S", "\n">>,
     <<"\t", "a", "r", "t", "e", "r", "i", "a", "l", " ", " ">>,
     <<"a", "r", "t", " ", "e", "r", "i", "a", "l">>,
     <<"v", "e", "n", "o", "u", "s", "x">>,
     <<"p", "o", "r", "t", "a", "l">>,
     <<" ", " ">>,
     <<>>}

HealthRequest == [route |-> "health", file |-> Absent, sent |-> FALSE, phase |-> <<>>]

AnalyzeRequest(file) ==
    [route |-> "analyze", file |-> file, sent |-> FALSE, phase |-> <<>>]

ProcessRequest(file, sent, phase) ==
    [route |-> "process", file |-> file, sent |-> sent, phase |-> phase]

ProcessFiles == {Absent, Empty, Garbage, Bitmap(2, 1, 1, <<1, 2>>)}

Requests ==
    {HealthRequest}
      \cup {AnalyzeRequest(f) : f \in {Absent, Empty, Garbage} \cup Images}
      \cup {ProcessRequest(f, TRUE, p) : f \in ProcessFiles, p \in PhaseInputs}
      \cup {ProcessRequest(f, FALSE, <<>>) : f \in ProcessFiles}

\* the requests that run side by side
ConcurrentRequests ==
    {HealthRequest}
      \cup {AnalyzeRequest(f) :
              f \in {Empty, Garbage, Bitmap(2, 2, 1, <<2, 2, 2, 2>>),
                     Bitmap(2, 1, 1, <<1, 2>>)}}
      \cup {ProcessRequest(f, TRUE, p) :
              f \in {Garbage, Bitmap(2, 1, 1, <<1, 2>>)},
              p \in {arterial, <<" ", "V", "E", "N", "O", "U", "S", "\n">>,
                     <<"p", "o", "r", "t", "a", "l">>}}
      \cup {ProcessRequest(Absent, TRUE, venous)}

(***************************************************************************)
(* The server: NReq requests in flight at most.  pc[r] is "idle",          *)
(* "received" (parsed, not yet validated), "ready" (the handler is about   *)
(* to be called), "reading" (the handler waits in "await file.read()") or  *)
(* "done" (the response is ready).                                         *)
(***************************************************************************)
Req == 1 .. NReq

Init ==
    /\ req = [r \in Req |-> NoRequest]
    /\ pc = [r \in Req |-> "idle"]
    /\ resp = [r \in Req |-> NoResponse]
    /\ eff = [r \in Req |-> NoEffects]
    /\ loc = [r \in Req |-> NoLocals]

Receive(r, q) ==
    /\ pc[r] = "idle"
    /\ req' = [req EXCEPT ![r] = q]
    /\ pc' = [pc EXCEPT ![r] = "received"]
    /\ UNCHANGED <<resp, eff, loc>>

\* FastAPI checks the required fields before it calls the handler
Validate(r) ==
    /\ pc[r] = "received"
    /\ IF MissingFields(req[r]) # {}
       THEN /\ resp' = [resp EXCEPT ![r] = ValidationResponse(MissingFields(req[r]))]
            /\ pc' = [pc EXCEPT ![r] = "done"]
       ELSE /\ pc' = [pc EXCEPT ![r] = "ready"]
            /\ UNCHANGED resp
    /\ UNCHANGED <<req, eff, loc>>

health(r) ==
    /\ pc[r] = "ready"
    /\ req[r].route = "health"
    /\ resp' = [resp EXCEPT ![r] = [status |-> 200, media |-> "application/json",
                                    body |-> [ok |-> TRUE]]]
    /\ pc' = [pc EXCEPT ![r] = "done"]
    /\ UNCHANGED <<req, eff, loc>>

\* lines 71-81: normalize and validate the phase, then wait for the content
process_start(r) ==
    /\ pc[r] = "ready"
    /\ req[r].route = "process"
    /\ LET phase == NormalizePhase(req[r].phase)
       IN  /\ loc' = [loc EXCEPT ![r].phase = phase]
           /\ IF ~PhaseAccepted(phase)
              THEN /\ resp' = [resp EXCEPT ![r] = PhaseErrorResponse]
                   /\ pc' = [pc EXCEPT ![r] = "done"]
              ELSE /\ pc' = [pc EXCEPT ![r] = "reading"]
                   /\ UNCHANGED resp
    /\ UNCHANGED <<req, eff>>

\* mutant: the phase kept in one place for all requests
PhaseOfFirst(r) == loc[1].phase

\* the phase the resumed handler works with
PhaseOf(r) == loc[r].phase

\* lines 81-108
process_finish(r) ==
    /\ pc[r] = "reading"
    /\ req[r].route = "process"
    /\ LET out == ProcessContent(req[r].file, PhaseOf(r))
       IN  /\ resp' = [resp EXCEPT ![r] = out.resp]
           /\ eff' = [eff EXCEPT ![r] = out.eff]
    /\ pc' = [pc EXCEPT ![r] = "done"]
    /\ UNCHANGED <<req, loc>>

\* lines 117-118
analyze_start(r) ==
    /\ pc[r] = "ready"
    /\ req[r].route = "analyze"
    /\ pc' = [pc EXCEPT ![r] = "reading"]
    /\ UNCHANGED <<req, resp, eff, loc>>

\* lines 118-171
analyze_finish(r) ==
    /\ pc[r] = "reading"
    /\ req[r].route = "analyze"
    /\ LET out == AnalyzeContent(req[r].file)
       IN  /\ resp' = [resp EXCEPT ![r] = out.resp]
           /\ eff' = [eff EXCEPT ![r] = out.eff]
           /\ loc' = [loc EXCEPT ![r] = out.loc]
    /\ pc' = [pc EXCEPT ![r] = "done"]
    /\ UNCHANGED req

\* the response leaves; nothing of the request stays behind
Send(r) ==
    /\ pc[r] = "done"
    /\ req' = [req EXCEPT ![r] = NoRequest]
    /\ pc' = [pc EXCEPT ![r] = "idle"]
    /\ resp' = [resp EXCEPT ![r] = NoResponse]
    /\ eff' = [eff EXCEPT ![r] = NoEffects]
    /\ loc' = [loc EXCEPT ![r] = NoLocals]

Step(r) ==
    \/ Validate(r)
    \/ health(r)
    \/ process_start(r)
    \/ process_finish(r)
    \/ analyze_start(r)
    \/ analyze_finish(r)
    \/ Send(r)

\* one request at a time, drawn from all the requests of the model
Next ==
    \/ \E q \in Requests : Receive(1, q)
    \/ Step(1)

Spec == Init /\ [][Next]_vars

\* requests side by side
NextConcurrent ==
    \/ \E r \in Req : \E q \in ConcurrentRequests : Receive(r, q)
    \/ \E r \in Req : Step(r)

SpecConcurrent == Init /\ [][NextConcurrent]_vars

(***************************************************************************)
(* Properties.                                                             *)
(***************************************************************************)
Done(r) == pc[r] = "done"

\* the handler of the request in slot r has been called
HandlerCalled(r) ==
    \/ pc[r] = "reading"
    \/ pc[r] = "done" /\ resp[r].status # 422

\* /analyze has answered with a detection result
Analyzed(r) ==
    /\ Done(r)
    /\ req[r].route = "analyze"
    /\ resp[r].status = 200

IsErrorEnvelope(body) ==
    /\ DOMAIN body = {"success", "error"}
    /\ body.success = FALSE
    /\ body.error \in STRING

\* str is word, in any letter case, between runs of whitespace
NormalizesTo(str, word) ==
    \E i \in 1 .. Len(str) + 1 :
        /\ i + Len(word) - 1 <= Len(str)
        /\ \A k \in 1 .. i - 1 : str[k] \in Whitespace
        /\ \A k \in i + Len(word) .. Len(str) : str[k] \in Whitespace
        /\ \A k \in 1 .. Len(word) :
              \/ str[i + k - 1] = word[k]
              \/ <<str[i + k - 1], word[k]>> \in UpperToLower

ValidPhase(str) == NormalizesTo(str, arterial) \/ NormalizesTo(str, venous)

\* a request that lacks a required field
LacksField(q) ==
    \/ q.route \in {"process", "analyze"} /\ q.file.kind = "absent"
    \/ q.route = "process" /\ (~q.sent \/ q.phase = <<>>)

\* a request that cannot succeed
Failing(q) ==
    \/ LacksField(q)
    \/ q.route \in {"process", "analyze"} /\ q.file.kind \in {"empty", "garbage"}
    \/ q.route = "process" /\ ~ValidPhase(q.phase)

\* contour k has the greatest area of the contours cs
IsLargest(cs, k) == \A j \in 1 .. Len(cs) : Area2(cs[j]) <= Area2(cs[k])

\* c hundredths is a nearest hundredth to num/den
NearestHundredth(c, num, den) == 2 * Abs(c * den - 100 * num) <= den

EveryFailureIs400 ==
    \A r \in Req :
        (Done(r) /\ Failing(req[r]))
        => /\ resp[r].status = 400
           /\ IsErrorEnvelope(resp[r].body)

\* C2 amended: a failing request that lacks a required field is answered by
\* the framework with HTTP 422 and a "detail" body before the handler runs;
\* every other failing request ends in HTTP 400 with the error envelope; a
\* request that does not fail ends in HTTP 200 without it.
FailureIs400Or422 ==
    \A r \in Req :
        Done(r)
        => IF LacksField(req[r])
           THEN /\ resp[r].status = 422
                /\ DOMAIN resp[r].body = {"detail"}
                /\ eff[r] = NoEffects
           ELSE IF Failing(req[r])
           THEN /\ resp[r].status = 400
                /\ IsErrorEnvelope(resp[r].body)
           ELSE /\ resp[r].status = 200
                /\ ~IsErrorEnvelope(resp[r].body)

\* C2 witness: an undecodable upload to /process ended in the handler's
\* except branch
UndecodableAnswered ==
    \E r \in Req :
        /\ Done(r)
        /\ req[r].route = "process"
        /\ req[r].file.kind = "garbage"
        /\ eff[r].opened
        /\ resp[r].status = 400

\* C3: /analyze reports detected exactly when there is a contour and the
\* largest contour's area is at least 5% of w*h; otherwise the result is
\* detected=false, confidence=0.0, bounding_box=null.
DetectedIffLargeContour ==
    \A r \in Req :
        Analyzed(r)
        => LET cs == loc[r].contours
               large == \E k \in 1 .. Len(cs) :
                            /\ IsLargest(cs, k)
                            /\ 100 * Area2(cs[k]) >= 5 * 2 * loc[r].w * loc[r].h
           IN  /\ resp[r].body.detected = large
               /\ ~large => resp[r].body =
                              [detected |-> FALSE, confidence |-> 0,
                               bounding_box |-> [null |-> TRUE]]

\* C3 witness: a largest contour of positive area below the gate
SmallContourRejected ==
    \E r \in Req :
        /\ Analyzed(r)
        /\ \E k \in 1 .. Len(loc[r].contours) : Area2(loc[r].contours[k]) > 0
        /\ ~resp[r].body.detected

\* C4 as stated: on the black 60x60 square centred in the white 100x100
\* canvas the result is detected=true, the box of the square within a pixel,
\* and a confidence of about 0.36.
DarkSquareSelected ==
    \A r \in Req :
        (Analyzed(r) /\ req[r].file = BlackSquare60)
        => /\ resp[r].body.detected
           /\ resp[r].body.bounding_box # Null
           /\ Abs(resp[r].body.bounding_box.x - 20) <= 1
           /\ Abs(resp[r].body.bounding_box.y - 20) <= 1
           /\ Abs(resp[r].body.bounding_box.width - 60) <= 1
           /\ Abs(resp[r].body.bounding_box.height - 60) <= 1
           /\ Abs(resp[r].body.confidence - 36) <= 1

\* C4 amended: on that picture the result is detected=true with the box of
\* the whole canvas, {x:0, y:0, width:100, height:100}, and confidence 0.98:
\* the white canvas is the region selected, not the dark square.
WhiteCanvasSelected ==
    \A r \in Req :
        (Analyzed(r) /\ req[r].file = BlackSquare60)
        => resp[r].body =
             [detected |-> TRUE, confidence |-> 98,
              bounding_box |-> [x |-> 0, y |-> 0, width |-> 100, height |-> 100]]

\* C4 witness: the picture has been analyzed
BlackSquare60Analyzed ==
    \E r \in Req : Analyzed(r) /\ req[r].file = BlackSquare60

\* C5 as stated: on the black 20x20 square centred in the white 100x100
\* canvas the result is detected=false.
SmallSquareUndetected ==
    \A r \in Req :
        (Analyzed(r) /\ req[r].file = BlackSquare20)
        => ~resp[r].body.detected

\* C5 amended: on that picture the result is detected=true with the box of
\* the whole canvas and confidence 0.98: the largest contour is the border
\* of the white canvas, of area 99*99, far above the 5% gate.
SmallSquareCanvasDetected ==
    \A r \in Req :
        (Analyzed(r) /\ req[r].file = BlackSquare20)
        => /\ Len(loc[r].contours) = 1
           /\ Area2(loc[r].contours[1]) = 2 * 99 * 99
           /\ resp[r].body =
                [detected |-> TRUE, confidence |-> 98,
                 bounding_box |-> [x |-> 0, y |-> 0, width |-> 100, height |-> 100]]

\* C5 witness: the picture has been analyzed
BlackSquare20Analyzed ==
    \E r \in Req : Analyzed(r) /\ req[r].file = BlackSquare20

IsUniform(file) ==
    \/ file.kind = "bitmap" /\ \A i, j \in 1 .. Len(file.bits) : file.bits[i] = file.bits[j]
    \/ file.kind = "square" /\ (file.sq = 0 \/ file.fg = file.bg)

UniformColour(file) ==
    IF file.kind = "bitmap" THEN Palette[file.bits[1]] ELSE Palette[file.bg]

\* C6 as stated: every uniform picture gives detected=false, confidence=0.0,
\* bounding_box=null.
UniformUndetected ==
    \A r \in Req :
        (Analyzed(r) /\ IsUniform(req[r].file))
        => resp[r].body =
             [detected |-> FALSE, confidence |-> 0, bounding_box |-> [null |-> TRUE]]

\* C6 amended: a uniform w x h picture gives detected=false, confidence=0.0,
\* bounding_box=null exactly when its grey level is 0 or (w-1)*(h-1) is
\* below 5% of w*h (so when w = 1 or h = 1); any other uniform picture is all
\* foreground and gives detected=true, the box of the whole picture and the
\* confidence (w-1)*(h-1)/(w*h) rounded to hundredths (0.98 at 100x100).
UniformDetectedUnlessBlack ==
    \A r \in Req :
        (Analyzed(r) /\ IsUniform(req[r].file))
        => LET w == ImageWidth(req[r].file)
               h == ImageHeight(req[r].file)
               body == resp[r].body
           IN  IF GrayOf(UniformColour(req[r].file)) = 0
                    \/ 100 * (w - 1) * (h - 1) < 5 * w * h
               THEN body = [detected |-> FALSE, confidence |-> 0,
                            bounding_box |-> [null |-> TRUE]]
               ELSE /\ body.detected
                    /\ body.bounding_box = [x |-> 0, y |-> 0, width |-> w, height |-> h]
                    /\ NearestHundredth(body.confidence, (w - 1) * (h - 1), w * h)
                    /\ (w = 100 /\ h = 100) => body.confidence = 98

\* C6 witness: the white 100x100 canvas was reported as detected
WhiteCanvasDetected ==
    \E r \in Req :
        /\ Analyzed(r)
        /\ req[r].file = WhiteCanvas
        /\ resp[r].body.detected

\* the area ratios num/(2*cells) of pictures of up to 2*MaxCells pixels
GridRatios ==
    {p \in (0 .. 4 * MaxCells + 2) \X (1 .. 2 * MaxCells) : p[1] <= 2 * p[2] + 2}

\* C7 (second half): over the ratios of the grid that are at least 0.05,
\* a greater ratio never gets a smaller confidence.
ConfidenceMonotone ==
    \A p, q \in GridRatios :
        (/\ 100 * p[1] >= 5 * 2 * p[2]
         /\ p[1] * q[2] <= q[1] * p[2])
        => Round2(Clamp([num |-> p[1], den |-> 2 * p[2]]))
             <= Round2(Clamp([num |-> q[1], den |-> 2 * q[2]]))

\* C7: the confidence of every result lies in [0, 1]; when detected it is
\* the area ratio of the largest contour, clamped to [0, 1] and rounded to
\* the nearest hundredth; and it never decreases as the ratio grows.
ConfidenceIsRoundedRatio ==
    /\ \A r \in Req :
          Analyzed(r)
          => /\ resp[r].body.confidence \in 0 .. 100
             /\ resp[r].body.detected
                  => \E k \in 1 .. Len(loc[r].contours) :
                        LET num == Area2(loc[r].contours[k])
                            den == 2 * loc[r].w * loc[r].h
                        IN  /\ IsLargest(loc[r].contours, k)
                            /\ NearestHundredth(resp[r].body.confidence,
                                                Min2(num, den), den)
    /\ ConfidenceMonotone

\* C7 witness: a detected region whose ratio is not a whole number of
\* hundredths, so that the rounding shows
ConfidenceRounded ==
    \E r \in Req :
        /\ Analyzed(r)
        /\ resp[r].body.detected
        /\ \E k \in 1 .. Len(loc[r].contours) :
              /\ IsLargest(loc[r].contours, k)
              /\ (100 * Area2(loc[r].contours[k])) % (2 * loc[r].w * loc[r].h) # 0

\* the response to q when it is the only request the server ever gets
ResponseAlone(q) ==
    IF LacksField(q) THEN ValidationResponse(MissingFields(q))
    ELSE IF q.route = "health"
    THEN [status |-> 200, media |-> "application/json", body |-> [ok |-> TRUE]]
    ELSE IF q.route = "process"
    THEN (IF ~PhaseAccepted(NormalizePhase(q.phase)) THEN PhaseErrorResponse
          ELSE ProcessContent(q.file, NormalizePhase(q.phase)).resp)
    ELSE AnalyzeContent(q.file).resp

BoundingBoxEnclosesLargest ==
    \A r \in Req :
        (Analyzed(r) /\ resp[r].body.detected)
        => LET box == resp[r].body.bounding_box
               cs == loc[r].contours
           IN  /\ \E k \in 1 .. Len(cs) :
                    LET pts == {cs[k][i] : i \in 1 .. Len(cs[k])}
                    IN  /\ IsLargest(cs, k)
                        /\ \A p \in pts :
                              /\ box.x <= p[1] /\ p[1] <= box.x + box.width - 1
                              /\ box.y <= p[2] /\ p[2] <= box.y + box.height - 1
                        /\ \E p \in pts : p[1] = box.x
                        /\ \E p \in pts : p[1] = box.x + box.width - 1
                        /\ \E p \in pts : p[2] = box.y
                        /\ \E p \in pts : p[2] = box.y + box.height - 1
               /\ box.width >= 1 /\ box.height >= 1
               /\ box.x >= 0 /\ box.y >= 0
               /\ box.x + box.width <= loc[r].w
               /\ box.y + box.height <= loc[r].h

\* C9 witness: a region was detected among several contours of different
\* areas, its box smaller than the picture
LargestOfSeveralBoxed ==
    \E r \in Req :
        /\ Analyzed(r)
        /\ resp[r].body.detected
        /\ \E j, k \in 1 .. Len(loc[r].contours) :
              Area2(loc[r].contours[j]) < Area2(loc[r].contours[k])
        /\ resp[r].body.bounding_box.width < loc[r].w

\* C10: in every detection result detected, a non-null bounding box and a
\* confidence of at least 0.05 go together; without detected the confidence
\* is 0.0 and the bounding box is null.
ResultFieldsAgree ==
    \A r \in Req :
        Analyzed(r)
        => LET body == resp[r].body
           IN  /\ body.detected = (body.bounding_box # [null |-> TRUE])
               /\ body.detected = (body.confidence >= 5)
               /\ ~body.detected
                    => /\ body.confidence = 0
                       /\ body.bounding_box = [null |-> TRUE]

\* C10 witness: contours were found and the result is still the empty one
UndetectedDespiteContours ==
    \E r \in Req :
        /\ Analyzed(r)
        /\ loc[r].contours # <<>>
        /\ resp[r].body = [detected |-> FALSE, confidence |-> 0,
                           bounding_box |-> [null |-> TRUE]]

====
